---- MODULE Spec2Model ----
(***************************************************************************)
(* FastWARC (fastwarc/warc.pyx): WarcHeaderMap, WarcRecord,                *)
(* parse_header_block and ArchiveIterator, over a byte stream.             *)
(*                                                                         *)
(* A byte is a one-character string; a C++ std::string is a sequence of    *)
(* bytes.  The BufferedReader (fastwarc/stream_io) is modelled from its    *)
(* contract: read, readline, tell, set_limit, reset_limit, consume, close. *)
(***************************************************************************)
EXTENDS Integers, Sequences, FiniteSets, TLC

VARIABLES
    reader,      \* ArchiveIterator.reader: the BufferedReader over the input stream
    cfg,         \* ArchiveIterator.parse_http / record_type_filter
    record,      \* ArchiveIterator.record (present = FALSE: None)
    status,      \* "init", or the last _NextRecStatus: "has_next", "skip_next", "eof"
    out,         \* the bytes written so far to the output stream of write()
    stale,       \* the record yielded before the live one, still held by the caller
    hist,        \* what the caller observed: one entry per yielded record
    last,        \* the caller's last operation on a record and what it returned
    got,         \* the bytes record.reader has delivered to the caller for the live record
    input        \* how the input stream was laid out (records, offsets)

vars == <<reader, cfg, record, status, out, stale, hist, last, got, input>>

(***************************************************************************)
(* Bytes                                                                   *)
(***************************************************************************)
LF == "\n"
COLON == ":"
CRLF == <<"\r", "\n">>

B_WARC10 == <<"W","A","R","C","/","1",".","0">>
B_WARC11 == <<"W","A","R","C","/","1",".","1">>
B_content_length == <<"c","o","n","t","e","n","t","-","l","e","n","g","t","h">>
B_warc_type == <<"w","a","r","c","-","t","y","p","e">>
B_content_type == <<"c","o","n","t","e","n","t","-","t","y","p","e">>
B_application_http == <<"a","p","p","l","i","c","a","t","i","o","n","/","h","t","t","p">>
B_Content_Length == <<"C","o","n","t","e","n","t","-","L","e","n","g","t","h">>
B_WARC_Type == <<"W","A","R","C","-","T","y","p","e">>
B_Content_Type == <<"C","o","n","t","e","n","t","-","T","y","p","e">>
B_WARC_Block_Digest == <<"W","A","R","C","-","B","l","o","c","k","-","D","i","g","e","s","t">>
B_WARC_Payload_Digest == <<"W","A","R","C","-","P","a","y","l","o","a","d","-","D","i","g","e","s","t">>
B_sha1 == <<"s","h","a","1">>
B_md5 == <<"m","d","5">>
B_sha256 == <<"s","h","a","2","5","6">>
B_warcinfo == <<"w","a","r","c","i","n","f","o">>
B_response == <<"r","e","s","p","o","n","s","e">>
B_resource == <<"r","e","s","o","u","r","c","e">>
B_request == <<"r","e","q","u","e","s","t">>
B_metadata == <<"m","e","t","a","d","a","t","a">>
B_revisit == <<"r","e","v","i","s","i","t">>
B_conversion == <<"c","o","n","v","e","r","s","i","o","n">>
B_continuation == <<"c","o","n","t","i","n","u","a","t","i","o","n">>
B_unknown == <<"u","n","k","n","o","w","n">>

UpperChars == <<"A","B","C","D","E","F","G","H","I","J","K","L","M","N","O","P","Q","R","S","T","U","V","W","X","Y","Z">>
LowerChars == <<"a","b","c","d","e","f","g","h","i","j","k","l","m","n","o","p","q","r","s","t","u","v","w","x","y","z">>
DigitChars == <<"0","1","2","3","4","5","6","7","8","9">>
B32Alphabet == <<"A","B","C","D","E","F","G","H","I","J","K","L","M","N","O","P","Q","R","S","T","U","V","W","X","Y","Z","2","3","4","5","6","7">>
OtherChars == <<"\r","\n","\t"," ",":","/",".","-",";","=","<",">">>

\* the byte values the model uses, in a fixed order (Ord gives a byte its code)
AllChars == OtherChars \o DigitChars \o UpperChars \o LowerChars

IndexIn(seq, c) == IF \E i \in 1..Len(seq) : seq[i] = c
                   THEN CHOOSE i \in 1..Len(seq) : seq[i] = c
                   ELSE 0

Ord(c) == IndexIn(AllChars, c)

Min(a, b) == IF a <= b THEN a ELSE b

\* size_t arithmetic wraps; the width is cut to what TLC's integers hold
SizeMod == 1073741824

ToSize(x) == x % SizeMod

\* std::string::npos as a size_t
strnpos == SizeMod - 1

\* <cctype> isspace in the C locale
isspace(c) == c \in {" ", "\t", "\n", "\r", "\f"}

\* <cctype> tolower
tolower(c) == LET i == IndexIn(UpperChars, c) IN IF i = 0 THEN c ELSE LowerChars[i]

isdigit(c) == IndexIn(DigitChars, c) # 0

\* std::string::substr(pos, count), pos <= size
substr(s, pos, count) == SubSeq(s, pos + 1, Min(Len(s), pos + count))

\* std::string::find of one byte: its 0-based index, or strnpos
find(s, c) == LET i == IndexIn(s, c) IN IF i = 0 THEN strnpos ELSE i - 1

\* s.find(prefix) == 0
StartsWith(s, prefix) == Len(s) >= Len(prefix) /\ SubSeq(s, 1, Len(prefix)) = prefix

(***************************************************************************)
(* strip_str: `start` ends at the first non-space byte, or at size-1 when  *)
(* the loop runs out; `end` ends at the last non-space byte, or at 0; the  *)
(* result is s.substr(start, end - start + 1) in size_t arithmetic.        *)
(***************************************************************************)
strip_str(s) ==
    LET n == Len(s)
        nonsp == {i \in 0..(n - 1) : ~isspace(s[i + 1])}
        start == IF n = 0 THEN 0
                 ELSE IF nonsp = {} THEN n - 1
                 ELSE CHOOSE i \in nonsp : \A j \in nonsp : i <= j
        end == IF n = 0 THEN 0
               ELSE IF nonsp = {} THEN 0
               ELSE CHOOSE i \in nonsp : \A j \in nonsp : i >= j
    IN substr(s, start, ToSize(end - start + 1))

str_to_lower(s) == [i \in 1..Len(s) |-> tolower(s[i])]

(***************************************************************************)
(* WarcRecordType (fastwarc/warc.pxd): one bit per type                    *)
(***************************************************************************)
warcinfo == 2
response == 4
resource == 8
request == 16
metadata == 32
revisit == 64
conversion == 128
continuation == 256
unknown == 512
any_type == 65535
no_type == 0

\* a & b on uint16_t
RECURSIVE BitAnd(_, _)
BitAnd(a, b) == IF a = 0 \/ b = 0 THEN 0
                ELSE (IF a % 2 = 1 /\ b % 2 = 1 THEN 1 ELSE 0) + 2 * BitAnd(a \div 2, b \div 2)

_enum_record_type_to_str(record_type) ==
    IF record_type = warcinfo THEN B_warcinfo
    ELSE IF record_type = response THEN B_response
    ELSE IF record_type = resource THEN B_resource
    ELSE IF record_type = request THEN B_request
    ELSE IF record_type = metadata THEN B_metadata
    ELSE IF record_type = revisit THEN B_revisit
    ELSE IF record_type = conversion THEN B_conversion
    ELSE IF record_type = continuation THEN B_continuation
    ELSE B_unknown

_str_record_type_to_enum(record_type) ==
    LET t == str_to_lower(record_type) IN
    IF t = B_warcinfo THEN warcinfo
    ELSE IF t = B_response THEN response
    ELSE IF t = B_resource THEN resource
    ELSE IF t = B_request THEN request
    ELSE IF t = B_metadata THEN metadata
    ELSE IF t = B_revisit THEN revisit
    ELSE IF t = B_conversion THEN conversion
    ELSE IF t = B_continuation THEN continuation
    ELSE unknown

(***************************************************************************)
(* std::stoi and std::to_string                                            *)
(***************************************************************************)
RECURSIVE StoiDigits(_, _, _)
StoiDigits(s, i, acc) ==
    IF i <= Len(s) /\ isdigit(s[i])
    THEN StoiDigits(s, i + 1, acc * 10 + (IndexIn(DigitChars, s[i]) - 1))
    ELSE acc

\* leading whitespace, an optional sign, then digits; ok = FALSE: std::invalid_argument
stoi(s) ==
    LET sp == {i \in 1..Len(s) : ~isspace(s[i])}
        b == IF sp = {} THEN Len(s) + 1 ELSE CHOOSE i \in sp : \A j \in sp : i <= j
        neg == b <= Len(s) /\ s[b] = "-"
        d == IF b <= Len(s) /\ s[b] \in {"-", "+"} THEN b + 1 ELSE b
    IN IF d <= Len(s) /\ isdigit(s[d])
       THEN [ok |-> TRUE, val |-> IF neg THEN 0 - StoiDigits(s, d, 0) ELSE StoiDigits(s, d, 0)]
       ELSE [ok |-> FALSE, val |-> 0]

RECURSIVE to_string(_)
to_string(n) == IF n < 10 THEN <<DigitChars[n + 1]>>
                ELSE to_string(n \div 10) \o <<DigitChars[(n % 10) + 1]>>

(***************************************************************************)
(* WarcHeaderMap: _status_line and the vector _headers of (name, value)    *)
(***************************************************************************)
EmptyHeaderMap == [status_line |-> <<>>, headers |-> <<>>]

RECURSIVE WriteHeaders(_)
WriteHeaders(hs) ==
    IF hs = <<>> THEN <<>>
    ELSE (IF hs[1][1] # <<>> THEN hs[1][1] \o <<":", " ">> ELSE <<>>)
         \o hs[1][2] \o CRLF \o WriteHeaders(Tail(hs))

\* mutant: the status line is ended by a bare \n
WarcHeaderMap_write_lf(hm) ==
    (IF hm.status_line # <<>> THEN hm.status_line \o <<LF>> ELSE <<>>)
    \o WriteHeaders(hm.headers)

\* WarcHeaderMap.write: the bytes it writes to the stream
WarcHeaderMap_write(hm) ==
    (IF hm.status_line # <<>> THEN hm.status_line \o CRLF ELSE <<>>)
    \o WriteHeaders(hm.headers)

clear(hm) == [hm EXCEPT !.headers = <<>>]

set_status_line(hm, status_line) == [hm EXCEPT !.status_line = status_line]

\* the index of the first header whose lower-cased name is the lower-cased key, or 0
FirstMatch(hm, header_key) ==
    LET k == str_to_lower(header_key)
        m == {i \in 1..Len(hm.headers) : str_to_lower(hm.headers[i][1]) = k}
    IN IF m = {} THEN 0 ELSE CHOOSE i \in m : \A j \in m : i <= j

get_header(hm, header_key) ==
    LET i == FirstMatch(hm, header_key)
    IN IF i = 0 THEN <<>> ELSE hm.headers[i][2]

set_header(hm, header_key, header_value) ==
    LET i == FirstMatch(hm, header_key)
    IN IF i = 0
       THEN [hm EXCEPT !.headers = Append(@, <<header_key, header_value>>)]
       ELSE [hm EXCEPT !.headers[i] = <<@[1], header_value>>]

append_header(hm, header_key, header_value) ==
    [hm EXCEPT !.headers = Append(@, <<header_key, header_value>>)]

add_continuation(hm, header_continuation_value) ==
    IF hm.headers # <<>>
    THEN [hm EXCEPT !.headers[Len(hm.headers)] =
                        <<@[1], @[2] \o <<" ">> \o header_continuation_value>>]
    ELSE [hm EXCEPT !.headers = Append(@, <<(<<>>), header_continuation_value>>)]

\* asdict()[key] / asdict().get(key): the dict comprehension keeps, for each
\* name as written, the value of its last pair
asdict_get(hm, key) ==
    LET m == {i \in 1..Len(hm.headers) : hm.headers[i][1] = key}
    IN IF m = {} THEN [found |-> FALSE, value |-> <<>>]
       ELSE [found |-> TRUE,
             value |-> hm.headers[CHOOSE i \in m : \A j \in m : i >= j][2]]

(***************************************************************************)
(* BufferedReader (contract): buf is the stream's content, pos the number  *)
(* of bytes delivered or consumed, limit the offset reads stop at (-1:     *)
(* none).                                                                  *)
(***************************************************************************)
NewReader(bytes) == [buf |-> bytes, pos |-> 0, limit |-> -1, closed |-> FALSE]

RdEnd(r) == IF r.limit < 0 THEN Len(r.buf) ELSE Min(r.limit, Len(r.buf))

RdAvail(r) == IF RdEnd(r) > r.pos THEN RdEnd(r) - r.pos ELSE 0

\* read(n): up to n bytes, none at the limit or at EOF
RdRead(r, n) ==
    LET k == Min(n, RdAvail(r))
    IN [data |-> SubSeq(r.buf, r.pos + 1, r.pos + k), r |-> [r EXCEPT !.pos = @ + k]]

\* readline(): through the first \n, or to the limit / EOF
RdReadline(r) ==
    LET e == r.pos + RdAvail(r)
        stop == IF \E i \in (r.pos + 1)..e : r.buf[i] = LF
                THEN CHOOSE i \in (r.pos + 1)..e :
                        r.buf[i] = LF /\ \A j \in (r.pos + 1)..(i - 1) : r.buf[j] # LF
                ELSE e
    IN [data |-> SubSeq(r.buf, r.pos + 1, stop), r |-> [r EXCEPT !.pos = stop]]

\* consume(n): advance past up to n bytes
RdConsume(r, n) == [r EXCEPT !.pos = @ + Min(n, RdAvail(r))]

\* consume(): advance to the limit
RdConsumeAll(r) == [r EXCEPT !.pos = @ + RdAvail(r)]

RdSetLimit(r, n) == [r EXCEPT !.limit = r.pos + n]

RdResetLimit(r) == [r EXCEPT !.limit = -1]

RdTell(r) == r.pos

RdClose(r) == [r EXCEPT !.closed = TRUE]

(***************************************************************************)
(* parse_header_block(reader, target, has_status_line)                     *)
(***************************************************************************)
\* one non-terminating line, dispatched as the loop body does
HeaderLine(target, line, has_status_line) ==
    IF isspace(line[1])
    THEN [target |-> add_continuation(target, strip_str(line)), hsl |-> has_status_line]
    ELSE IF has_status_line
    THEN [target |-> set_status_line(target, strip_str(line)), hsl |-> FALSE]
    ELSE LET delim_pos == find(line, COLON) IN
         IF delim_pos = strnpos
         THEN [target |-> add_continuation(target, strip_str(line)), hsl |-> FALSE]
         ELSE LET header_key == strip_str(substr(line, 0, delim_pos))
                  header_value == IF delim_pos >= Len(line) THEN <<>>
                                  ELSE strip_str(substr(line, delim_pos + 1, strnpos))
              IN [target |-> append_header(target, header_key, header_value), hsl |-> FALSE]

\* the line that ends the block
IsBlockEnd(line) == line = CRLF \/ line = <<>>

RECURSIVE HeaderBlockLoop(_, _, _, _)
\* the loop goes on after a line h was dispatched
HeaderBlockNext(r, h, bytes_consumed) ==
    HeaderBlockLoop(r, h.target, h.hsl, bytes_consumed)

\* one turn of the loop, on the line l just read
HeaderBlockTurn(l, target, has_status_line, bytes_consumed) ==
    IF IsBlockEnd(l.data)
    THEN [r |-> l.r, target |-> target, bytes_consumed |-> bytes_consumed + Len(l.data)]
    ELSE HeaderBlockNext(l.r, HeaderLine(target, l.data, has_status_line),
                         bytes_consumed + Len(l.data))

HeaderBlockLoop(r, target, has_status_line, bytes_consumed) ==
    HeaderBlockTurn(RdReadline(r), target, has_status_line, bytes_consumed)

parse_header_block(r, target, has_status_line) ==
    HeaderBlockLoop(r, target, has_status_line, 0)

(***************************************************************************)
(* hashlib and base64.b32encode / b32decode.  A digest is a number below   *)
(* 32 * 32, computed over every byte of the data in order; its base32      *)
(* text is two symbols of the base32 alphabet.                             *)
(***************************************************************************)
RECURSIVE HashFold(_, _, _, _)
HashFold(mult, data, i, acc) ==
    IF i > Len(data) THEN acc
    ELSE HashFold(mult, data, i + 1, (acc * mult + Ord(data[i])) % (32 * 32))

sha1(data) == HashFold(31, data, 1, 7)
md5(data) == HashFold(17, data, 1, 3)
sha256(data) == HashFold(13, data, 1, 5)

b32encode(d) == <<B32Alphabet[(d \div 32) + 1], B32Alphabet[(d % 32) + 1]>>

\* ok = FALSE: binascii.Error
b32decode(s) ==
    IF Len(s) = 2 /\ IndexIn(B32Alphabet, s[1]) # 0 /\ IndexIn(B32Alphabet, s[2]) # 0
    THEN [ok |-> TRUE,
          val |-> (IndexIn(B32Alphabet, s[1]) - 1) * 32 + (IndexIn(B32Alphabet, s[2]) - 1)]
    ELSE [ok |-> FALSE, val |-> 0]

(***************************************************************************)
(* WarcRecord.  _reader is the iterator's reader (rkind = "iter", the same *)
(* object, so it is passed in and handed back as `shared`) or a reader of  *)
(* its own over an in-memory buffer (rkind = "own").                       *)
(***************************************************************************)
\* WarcRecord.__cinit__
NewRecord ==
    [present |-> TRUE, record_type |-> unknown, is_http |-> FALSE, http_parsed |-> FALSE,
     content_length |-> 0, headers |-> EmptyHeaderMap,
     has_http_headers |-> FALSE, http_headers |-> EmptyHeaderMap,
     stream_pos |-> 0, rkind |-> "none", own |-> NewReader(<<>>)]

\* None
NoRecord == [NewRecord EXCEPT !.present = FALSE]

RecReader(rec, shared) == IF rec.rkind = "own" THEN rec.own ELSE shared

WithReader(rec, shared, r) ==
    IF rec.rkind = "own"
    THEN [record |-> [rec EXCEPT !.own = r], reader |-> shared]
    ELSE [record |-> rec, reader |-> r]

\* the bytes a caller can still read from record.reader
Unread(rec, shared) ==
    LET r == RecReader(rec, shared) IN SubSeq(r.buf, r.pos + 1, r.pos + RdAvail(r))

\* mutant: content_length is left as it was
parse_http_keep(rec, shared) ==
    IF rec.http_parsed THEN [record |-> rec, reader |-> shared, num_bytes |-> 0]
    ELSE LET p == parse_header_block(RecReader(rec, shared), EmptyHeaderMap, TRUE)
         IN WithReader([rec EXCEPT !.has_http_headers = TRUE,
                                   !.http_headers = p.target,
                                   !.http_parsed = TRUE], shared, p.r)
            @@ [num_bytes |-> p.bytes_consumed]

\* self._content_length -= num_bytes; self._http_parsed = True
HttpParsed(rec, shared, p) ==
    WithReader([rec EXCEPT !.has_http_headers = TRUE,
                           !.http_headers = p.target,
                           !.content_length = ToSize(rec.content_length - p.bytes_consumed),
                           !.http_parsed = TRUE], shared, p.r)
    @@ [num_bytes |-> p.bytes_consumed]

\* mutant: a record already parsed is parsed again
parse_http_again(rec, shared) ==
    HttpParsed(rec, shared,
               parse_header_block(RecReader(rec, shared), EmptyHeaderMap, TRUE))

\* WarcRecord.parse_http
parse_http(rec, shared) ==
    IF rec.http_parsed THEN [record |-> rec, reader |-> shared, num_bytes |-> 0]
    ELSE HttpParsed(rec, shared,
                    parse_header_block(RecReader(rec, shared), EmptyHeaderMap, TRUE))

\* while True: data = reader.read(chunk_size); if data.empty(): break
RECURSIVE ReadChunks(_, _, _)
\* one turn of the loop, on the chunk c just read
ReadChunk(c, chunk_size, acc) ==
    IF c.data = <<>> THEN [r |-> c.r, data |-> acc]
    ELSE ReadChunks(c.r, chunk_size, acc \o c.data)

ReadChunks(r, chunk_size, acc) == ReadChunk(RdRead(r, chunk_size), chunk_size, acc)

write_chunk_size == 16384
verify_chunk_size == 1024

\* the bytes _write_impl writes once it has read the payload data
WrittenBytes(rec, write_payload_headers, data) ==
    WarcHeaderMap_write(rec.headers) \o CRLF
    \o (IF write_payload_headers /\ rec.http_parsed
        THEN WarcHeaderMap_write(rec.http_headers) \o CRLF ELSE <<>>)
    \o data \o CRLF

\* the result of _write_impl when reading in_reader gave d
WriteImplOf(rec, write_payload_headers, d) ==
    [bytes |-> WrittenBytes(rec, write_payload_headers, d.data), in_reader |-> d.r]

\* WarcRecord._write_impl on a plain (not block-compressing) output stream:
\* the bytes it writes, and the reader it drained
_write_impl(rec, in_reader, write_payload_headers, chunk_size) ==
    WriteImplOf(rec, write_payload_headers, ReadChunks(in_reader, chunk_size, <<>>))

\* write() when the record goes out as it is read
WriteStreamed(rec, shared, w) ==
    WithReader(rec, shared, w.in_reader) @@ [bytes |-> w.bytes]

\* if checksum_data and self._http_parsed: set WARC-Payload-Digest
PayloadDigestHeader(hm, rec, checksum_data, payload) ==
    IF checksum_data /\ rec.http_parsed
    THEN set_header(hm, B_WARC_Payload_Digest,
                    B_sha1 \o <<":">> \o b32encode(sha1(payload)))
    ELSE hm

\* if checksum_data: set WARC-Block-Digest
BlockDigestHeader(hm, checksum_data, block_buf) ==
    IF checksum_data
    THEN set_header(hm, B_WARC_Block_Digest,
                    B_sha1 \o <<":">> \o b32encode(sha1(block_buf)))
    ELSE hm

\* the headers write() sets before it writes the buffered block
BufferedHeaders(rec, checksum_data, payload, block_buf) ==
    BlockDigestHeader(
        PayloadDigestHeader(
            set_header(rec.headers, B_Content_Length, to_string(Len(block_buf))),
            rec, checksum_data, payload),
        checksum_data, block_buf)

\* self._write_impl(block_buf, stream, False, chunk_size)
WriteBuffer(x, block_buf) ==
    [record |-> x.record, reader |-> x.reader,
     bytes |-> _write_impl(x.record, NewReader(block_buf), FALSE, write_chunk_size).bytes]

\* write() once the block (HTTP headers and payload d.data) is in block_buf
WriteBlock(rec, shared, checksum_data, d, block_buf) ==
    WriteBuffer(WithReader([rec EXCEPT !.headers = BufferedHeaders(rec, checksum_data,
                                                                   d.data, block_buf)],
                           shared, d.r),
                block_buf)

\* write() through a buffer: the payload read as d
WriteBuffered(rec, shared, checksum_data, d) ==
    WriteBlock(rec, shared, checksum_data, d,
               (IF rec.http_parsed THEN WarcHeaderMap_write(rec.http_headers) \o CRLF
                ELSE <<>>) \o d.data)

\* WarcRecord.write(stream, checksum_data)
write(rec, shared, checksum_data) ==
    IF ~checksum_data /\ ~rec.http_parsed
    THEN WriteStreamed(rec, shared,
                       _write_impl(rec, RecReader(rec, shared), TRUE, write_chunk_size))
    ELSE WriteBuffered(rec, shared, checksum_data,
                       ReadChunks(RecReader(rec, shared), write_chunk_size, <<>>))

\* mutant: the tee buffer is left positioned at its end
Rebind_noseek(rec, tee) ==
    [rec EXCEPT !.rkind = "own", !.own = [NewReader(tee) EXCEPT !.pos = Len(tee)]]

\* tee_stream.seek(0); self._reader = BufferedReader(tee_stream)
Rebind(rec, tee) == [rec EXCEPT !.rkind = "own", !.own = NewReader(tee)]

\* h.digest() of the algorithm named
Digest(alg, data) ==
    IF alg = B_sha1 THEN sha1(data) ELSE IF alg = B_md5 THEN md5(data) ELSE sha256(data)

\* the reader was read to its end as d: rebind and compare
Verified(rec, shared, alg, digest, d) ==
    [record |-> Rebind(WithReader(rec, shared, d.r).record, d.data),
     reader |-> WithReader(rec, shared, d.r).reader,
     ret |-> IF Digest(alg, d.data) = digest THEN "true" ELSE "false"]

\* _verify_digest from the algorithm name and the decoded digest on
VerifyWith(rec, shared, alg, digest) ==
    IF ~digest.ok THEN [record |-> rec, reader |-> shared, ret |-> "error"]
    ELSE IF alg \notin {B_sha1, B_md5, B_sha256}
    THEN [record |-> rec, reader |-> shared, ret |-> "false"]
    ELSE Verified(rec, shared, alg, digest.val,
                  ReadChunks(RecReader(rec, shared), verify_chunk_size, <<>>))

\* _verify_digest from the place of the ':' on
VerifyAt(rec, shared, base32_digest, sep_pos) ==
    IF sep_pos = strnpos THEN [record |-> rec, reader |-> shared, ret |-> "false"]
    ELSE VerifyWith(rec, shared, substr(base32_digest, 0, sep_pos),
                    b32decode(substr(base32_digest, sep_pos + 1, strnpos)))

\* WarcRecord._verify_digest; ret is "true", "false" or "error" (b32decode raised)
_verify_digest(rec, shared, base32_digest) ==
    VerifyAt(rec, shared, base32_digest, find(base32_digest, COLON))

verify_block_digest(rec, shared) ==
    _verify_digest(rec, shared, get_header(rec.headers, B_WARC_Block_Digest))

verify_payload_digest(rec, shared) ==
    IF ~rec.http_parsed THEN [record |-> rec, reader |-> shared, ret |-> "false"]
    ELSE _verify_digest(rec, shared, get_header(rec.headers, B_WARC_Payload_Digest))

(***************************************************************************)
(* ArchiveIterator._read_next_record                                       *)
(***************************************************************************)
\* the loop over blank lines up to the version line
RECURSIVE VersionLoop(_, _)
\* version_line = strip_str(version_line); is it WARC/1.0 or WARC/1.1
VersionLine(v, r, stream_pos) ==
    [st |-> IF v = B_WARC10 \/ v = B_WARC11 THEN "ok" ELSE "eof",
     r |-> r, stream_pos |-> stream_pos, line |-> v]

\* one turn of the loop, on the line l just read
VersionTurn(l, stream_pos) ==
    IF l.data = <<>> THEN [st |-> "eof", r |-> l.r, stream_pos |-> stream_pos, line |-> <<>>]
    ELSE IF l.data = CRLF \/ l.data = <<LF>>
    THEN VersionLoop(l.r, stream_pos + Len(l.data) + 1)
    ELSE VersionLine(strip_str(l.data), l.r, stream_pos)

VersionLoop(r, stream_pos) == VersionTurn(RdReadline(r), stream_pos)

\* the scan of the parsed headers for Content-Length, WARC-Type and Content-Type
RECURSIVE ScanHeaders(_, _, _, _)
ScanHeaders(hs, i, rec, parse_count) ==
    IF i > Len(hs) \/ parse_count >= 3 THEN [ok |-> TRUE, record |-> rec]
    ELSE LET hkey == str_to_lower(hs[i][1]) IN
         IF hkey = B_content_length
         THEN LET n == stoi(hs[i][2]) IN
              IF ~n.ok THEN [ok |-> FALSE, record |-> rec]
              ELSE ScanHeaders(hs, i + 1, [rec EXCEPT !.content_length = ToSize(n.val)],
                               parse_count + 1)
         ELSE IF hkey = B_warc_type
         THEN ScanHeaders(hs, i + 1,
                          [rec EXCEPT !.record_type = _str_record_type_to_enum(hs[i][2])],
                          parse_count + 1)
         ELSE IF hkey = B_content_type /\ StartsWith(hs[i][2], B_application_http)
         THEN ScanHeaders(hs, i + 1, [rec EXCEPT !.is_http = TRUE], parse_count + 1)
         ELSE ScanHeaders(hs, i + 1, rec, parse_count)

\* mutant: the unread rest of the previous record is left in the stream
Reclaim_keep(rd, prev) == IF prev.present THEN RdResetLimit(rd) ELSE rd

\* if self.record is not None: reader.consume(); reader.reset_limit()
Reclaim(rd, prev) == IF prev.present THEN RdResetLimit(RdConsumeAll(rd)) ELSE rd

\* record_type & record_type_filter == 0
Filtered(rec, c) == BitAnd(rec.record_type, c.record_type_filter) = 0

\* mutant: the block of a skipped record is left in the stream
SkipRecord_keep(r, rec) ==
    [reader |-> RdResetLimit(r), record |-> NoRecord]

\* reader.reset_limit(); reader.consume(content_length); self.record = None
SkipRecord(r, rec) ==
    [reader |-> RdConsume(RdResetLimit(r), rec.content_length), record |-> NoRecord]

\* mutant: the limit reaches past the block
BindReader_past(r, rec) ==
    [reader |-> RdSetLimit(r, rec.content_length + 2), record |-> [rec EXCEPT !.rkind = "iter"]]

\* reader.set_limit(content_length); record._reader = self.reader
BindReader(r, rec) ==
    [reader |-> RdSetLimit(r, rec.content_length), record |-> [rec EXCEPT !.rkind = "iter"]]

\* if self.parse_http and self.record._is_http: self.record.parse_http()
AutoParseHttp(b, c) ==
    IF c.parse_http /\ b.record.is_http
    THEN parse_http(b.record, b.reader)
    ELSE [record |-> b.record, reader |-> b.reader, num_bytes |-> 0]

\* what a call returns when it yields no record
NoYield == [limit_len |-> 0, num_bytes |-> 0]

\* return HasNext
Yield(h, limit_len) ==
    [status |-> "has_next", reader |-> h.reader, record |-> h.record,
     limit_len |-> limit_len, num_bytes |-> h.num_bytes]

\* after the scan s of the headers: stoi threw, the record is skipped, or it
\* is bound to the reader and returned
AfterScan(s, r, c) ==
    IF ~s.ok THEN [status |-> "error", reader |-> r, record |-> s.record] @@ NoYield
    ELSE IF Filtered(s.record, c)
    THEN [status |-> "skip_next"] @@ SkipRecord(r, s.record) @@ NoYield
    ELSE Yield(AutoParseHttp(BindReader(r, s.record), c), s.record.content_length)

\* after parse_header_block returned p
AfterHeaders(p, rec0, c) ==
    AfterScan(ScanHeaders(p.target.headers, 1, [rec0 EXCEPT !.headers = p.target], 0),
              p.r, c)

\* after the loop over blank lines returned v
AfterVersion(v, rec0, c) ==
    IF v.st = "eof"
    THEN [status |-> "eof", reader |-> v.r, record |-> rec0] @@ NoYield
    ELSE AfterHeaders(parse_header_block(v.r, set_status_line(rec0.headers, v.line), FALSE),
                      rec0, c)

\* self.record = WarcRecord(); self.record._stream_pos = stream_pos
RecordAt(v, c) == AfterVersion(v, [NewRecord EXCEPT !.stream_pos = v.stream_pos], c)

\* from stream_pos = self.reader.tell() on
FromTell(r0, c) == RecordAt(VersionLoop(r0, RdTell(r0)), c)

\* one call on an uncompressed stream; status "error": std::stoi threw.
\* limit_len is the content length the reader limit was set to, num_bytes
\* what parse_http consumed.
_read_next_record(rd, c, prev) == FromTell(Reclaim(rd, prev), c)

(***************************************************************************)
(* Input streams: records in the wire layout                               *)
(*   <version>\r\n (<name>: <value>\r\n)* \r\n <block> \r\n \r\n           *)
(* with blank lines in front of each record.                               *)
(***************************************************************************)
MaxRecs == 2
MaxBlank == 1
MaxOps == 2
MaxLead == 20

B_WARC09 == <<"W","A","R","C","/","0",".","9">>
B_HTTP_status == <<"H","T","T","P","/","1",".","1"," ","2","0","0"," ","O","K">>
B_http_msgtype == <<"a","p","p","l","i","c","a","t","i","o","n","/","h","t","t","p",";"," ","m","s","g","t","y","p","e","=","r","e","s","p","o","n","s","e">>
B_X_Foo == <<"X","-","F","o","o">>
B_bar == <<"b","a","r">>
B_baz == <<"b","a","z">>
B_hi == <<"h","i">>
B_crc == <<"c","r","c">>
B_a_b == <<"a", "\n", "b">>

WireLine(name, value) == name \o <<":", " ">> \o value \o CRLF

HttpBlock(body) == B_HTTP_status \o CRLF \o WireLine(<<"A">>, <<"b">>) \o CRLF \o body

DigestText(alg, d) == alg \o <<":">> \o b32encode(d)

\* a warcinfo record with a plain block
InfoRec(block, extra) ==
    [type |-> warcinfo, http |-> FALSE, version |-> B_WARC11, block |-> block,
     lines |-> <<WireLine(B_WARC_Type, B_warcinfo)>> \o extra
               \o <<WireLine(B_Content_Length, to_string(Len(block)))>>]

\* a response record whose block is an HTTP message
RespRec(body, extra) ==
    [type |-> response, http |-> TRUE, version |-> B_WARC10, block |-> HttpBlock(body),
     lines |-> <<WireLine(B_WARC_Type, B_response),
                 WireLine(B_Content_Type, B_http_msgtype)>> \o extra
               \o <<WireLine(B_Content_Length, to_string(Len(HttpBlock(body))))>>]

\* the same with Content-Length first
RespRecLenFirst(body) ==
    [type |-> response, http |-> TRUE, version |-> B_WARC11, block |-> HttpBlock(body),
     lines |-> <<WireLine(B_Content_Length, to_string(Len(HttpBlock(body)))),
                 WireLine(B_Content_Type, B_http_msgtype),
                 WireLine(B_WARC_Type, B_response)>>]

T_info == InfoRec(B_a_b, <<>>)
T_resp == RespRec(B_hi, <<>>)
T_empty == InfoRec(<<>>, <<>>)

\* the shortest record the iterator yields: a version line and no header
T_bare == [type |-> unknown, http |-> FALSE, version |-> B_WARC11, block |-> <<>>,
           lines |-> <<>>]

\* records carrying digest headers: right, wrong, unsupported algorithm, no colon
DigestRecs ==
    {InfoRec(B_a_b, <<WireLine(B_WARC_Block_Digest, v)>>) :
        v \in {DigestText(B_sha1, sha1(B_a_b)), DigestText(B_md5, md5(B_a_b)),
               DigestText(B_sha256, sha256(B_a_b)),
               DigestText(B_sha1, (sha1(B_a_b) + 1) % (32 * 32)),
               DigestText(B_crc, sha1(B_a_b)), b32encode(sha1(B_a_b))}}
    \cup {RespRec(B_hi, <<WireLine(B_WARC_Block_Digest, DigestText(B_sha1, sha1(HttpBlock(B_hi)))),
                          WireLine(B_WARC_Payload_Digest, DigestText(B_md5, md5(B_hi)))>>)}

\* records that repeat one of the three scanned headers
DupRecs ==
    {[type |-> warcinfo, http |-> FALSE, version |-> B_WARC11, block |-> B_a_b,
      lines |-> <<WireLine(B_WARC_Type, B_warcinfo), WireLine(B_WARC_Type, B_warcinfo),
                  WireLine(B_WARC_Type, B_warcinfo),
                  WireLine(B_Content_Length, to_string(Len(B_a_b)))>>],
     [type |-> response, http |-> TRUE, version |-> B_WARC11, block |-> HttpBlock(B_hi),
      lines |-> <<WireLine(B_Content_Type, B_http_msgtype),
                  WireLine(B_Content_Length, to_string(Len(HttpBlock(B_hi)))),
                  WireLine(B_Content_Length, to_string(Len(HttpBlock(B_hi)))),
                  WireLine(B_WARC_Type, B_response)>>]}

\* records with a header folded over two lines
FoldRecs ==
    {[type |-> warcinfo, http |-> FALSE, version |-> B_WARC11, block |-> B_a_b,
      lines |-> pre \o <<WireLine(B_WARC_Type, B_warcinfo),
                         WireLine(B_Content_Length, to_string(Len(B_a_b)))>> \o post] :
        pre \in {<<>>, <<(<<" ">> \o B_baz \o CRLF)>>},
        post \in {<<WireLine(B_X_Foo, B_bar), <<" ">> \o B_baz \o CRLF>>,
                  <<WireLine(B_X_Foo, B_bar), <<"\t">> \o B_baz \o <<" ">> \o CRLF>>,
                  <<WireLine(B_X_Foo, B_bar), <<" ">> \o CRLF>>}}

\* malformed records: no Content-Length, a Content-Length that is no number,
\* a version line that is neither WARC/1.0 nor WARC/1.1
MalRecs ==
    {[type |-> warcinfo, http |-> FALSE, version |-> B_WARC11, block |-> B_a_b,
      lines |-> <<WireLine(B_WARC_Type, B_warcinfo)>>],
     [type |-> warcinfo, http |-> FALSE, version |-> B_WARC11, block |-> B_a_b,
      lines |-> <<WireLine(B_WARC_Type, B_warcinfo), WireLine(B_Content_Length, B_bar)>>],
     [type |-> warcinfo, http |-> FALSE, version |-> B_WARC09, block |-> B_a_b,
      lines |-> <<WireLine(B_WARC_Type, B_warcinfo),
                  WireLine(B_Content_Length, to_string(Len(B_a_b)))>>]}

\* n records, warcinfo and response in turn
RECURSIVE Alternate(_, _)
Alternate(first, n) ==
    IF n = 0 THEN <<>>
    ELSE <<IF first THEN T_info ELSE T_resp>> \o Alternate(~first, n - 1)

\* fam "wf": every record in the wire layout, no header repeated or folded;
\* fam "mal": the first record is malformed; fam "trunc": the stream ends
\* after the last header line of its record, before the blank line; fam
\* "lead": the stream begins with MaxLead more blank lines, before a record
\* of 12 bytes
Streams ==
    [fam : {"wf"}, descs : {Alternate(f, n) : f \in BOOLEAN, n \in 1..MaxRecs}]
    \cup [fam : {"wf"}, descs : {<<T_empty, T_info>>, <<RespRecLenFirst(B_hi)>>}]
    \cup [fam : {"wf"}, descs : {<<d>> : d \in DigestRecs}]
    \cup [fam : {"dup"}, descs : {<<d, T_info>> : d \in DupRecs}]
    \cup [fam : {"fold"}, descs : {<<d>> : d \in FoldRecs}]
    \cup [fam : {"mal"}, descs : {<<d, T_info>> : d \in MalRecs}]
    \cup [fam : {"trunc"}, descs : {<<T_info>>}]
    \cup [fam : {"lead"}, descs : {<<T_bare, T_info>>}]

RECURSIVE BlankLines(_)
BlankLines(k) == IF k = 0 THEN <<>>
                 ELSE BlankLines(k - 1) \o (IF k % 2 = 1 THEN CRLF ELSE <<LF>>)

RECURSIVE Concat(_)
Concat(ss) == IF ss = <<>> THEN <<>> ELSE ss[1] \o Concat(Tail(ss))

\* the stream's bytes and, for each record, the offsets of its version line
\* (ver_off), of its block (pay_off) and of the end of its block (pay_end)
RECURSIVE Layout(_, _, _, _)
Layout(descs, lead, bytes, recs) ==
    IF descs = <<>> THEN [bytes |-> bytes, recs |-> recs]
    ELSE LET d == descs[1]
             head == lead \o d.version \o CRLF \o Concat(d.lines) \o CRLF
         IN Layout(Tail(descs), lead,
                   bytes \o head \o d.block \o CRLF \o CRLF,
                   Append(recs, d @@ [ver_off |-> Len(bytes) + Len(lead),
                                      pay_off |-> Len(bytes) + Len(head),
                                      pay_end |-> Len(bytes) + Len(head) + Len(d.block)]))

\* the bytes of the stream laid out as L
StreamBytes(fam, L) ==
    IF fam = "trunc" THEN SubSeq(L.bytes, 1, L.recs[1].pay_off - 2)
    ELSE IF fam = "lead" THEN BlankLines(MaxLead) \o L.bytes
    ELSE L.bytes

\* the records recs in a stream with n more bytes in front
Shifted(recs, n) ==
    [i \in 1..Len(recs) |-> [recs[i] EXCEPT !.ver_off = @ + n, !.pay_off = @ + n,
                                            !.pay_end = @ + n]]

\* its records: a stream cut off before the blank line holds no block
StreamRecs(fam, L) ==
    IF fam = "trunc"
    THEN <<[L.recs[1] EXCEPT !.block = <<>>, !.pay_off = @ - 2,
                             !.pay_end = L.recs[1].pay_off - 2]>>
    ELSE IF fam = "lead" THEN Shifted(L.recs, Len(BlankLines(MaxLead)))
    ELSE L.recs

Filters == {any_type, response}

\* the caller either copies the stream (writes every record it is given, at
\* once, to one output stream), inspects each record with up to MaxOps
\* operations, or writes every record it is given, at once, to one
\* block-compressing stream ("members")
Runs ==
    [mode : {"copy"}, s : Streams, k : 0..MaxBlank, ph : BOOLEAN, f : Filters]
    \cup [mode : {"inspect"}, s : Streams, k : {0}, ph : BOOLEAN, f : Filters]
    \cup [mode : {"members"}, s : Streams, k : {0}, ph : BOOLEAN, f : Filters]

(***************************************************************************)
(* The caller                                                              *)
(***************************************************************************)
Snapshot(rec, shared) ==
    [cl |-> rec.content_length, unread |-> Unread(rec, shared), rkind |-> rec.rkind,
     http_parsed |-> rec.http_parsed, headers |-> rec.headers]

NoSnapshot == Snapshot(NoRecord, NewReader(<<>>))

\* k counts the caller's operations since the live record was yielded
Op(op, ret, data, n, pre, k) ==
    [op |-> op, ret |-> ret, data |-> data, n |-> n, pre |-> pre, k |-> k]

\* the input record whose block starts at offset p (0: none)
RecAt(p) ==
    LET m == {i \in 1..Len(input.recs) : input.recs[i].pay_off = p}
    IN IF m = {} THEN 0 ELSE CHOOSE i \in m : TRUE

Live == status = "has_next"

MayInspect == Live /\ input.mode = "inspect" /\ last.k < MaxOps

\* the caller's handle on a record it was given earlier: its reader
Handle(rec) == [present |-> rec.present, rkind |-> rec.rkind, own |-> rec.own]

Init ==
    \E run \in Runs :
        LET L == Layout(run.s.descs, BlankLines(run.k), <<>>, <<>>) IN
        /\ reader = NewReader(StreamBytes(run.s.fam, L))
        /\ input = [mode |-> run.mode, fam |-> run.s.fam, recs |-> StreamRecs(run.s.fam, L),
                    lead |-> run.k]
        /\ cfg = [parse_http |-> run.ph, record_type_filter |-> run.f]
        /\ record = NoRecord
        /\ stale = Handle(NoRecord)
        /\ status = "init"
        /\ out = <<>>
        /\ hist = <<>>
        /\ got = <<>>
        /\ last = Op("init", "", <<>>, 0, NoSnapshot, 0)

\* the iterator's call returned n; it is recorded with the bytes the caller
\* had read from the record yielded before
Pulled(n) ==
    /\ status' = n.status
    /\ reader' = IF n.status = "eof" THEN RdClose(n.reader) ELSE n.reader
    /\ record' = n.record
    /\ stale' = IF Live THEN Handle(record) ELSE stale
    /\ hist' = IF n.status = "has_next"
               THEN Append(hist, [idx |-> RecAt(n.reader.limit - n.limit_len),
                                  record_type |-> n.record.record_type,
                                  stream_pos |-> n.record.stream_pos])
               ELSE hist
    /\ last' = Op("next", n.status, got, n.num_bytes,
                  [Snapshot(n.record, n.reader) EXCEPT !.cl = n.limit_len], 0)

\* ArchiveIterator.__iter__: one turn of the loop
Pull ==
    /\ status \in {"init", "has_next", "skip_next"}
    /\ (input.mode \in {"copy", "members"} /\ Live) => last.op \in {"write", "write_member"}
    /\ Pulled(_read_next_record(reader, cfg, record))
    /\ got' = <<>>
    /\ UNCHANGED <<cfg, out, input>>

\* a call on the live record returned: x is the record and the reader after it
Called(op, ret, data, n, x) ==
    /\ record' = x.record
    /\ reader' = x.reader
    /\ last' = Op(op, ret, data, n, Snapshot(record, reader), last.k + 1)

\* the live record's reader delivered c
Delivered(op, n, c) ==
    /\ Called(op, "", c.data, n, WithReader(record, reader, c.r))
    /\ got' = got \o c.data

\* record.reader.read(n) on the live record
Read(n) ==
    /\ MayInspect
    /\ Delivered("read", n, RdRead(RecReader(record, reader), n))
    /\ UNCHANGED <<cfg, status, out, stale, hist, input>>

\* record.reader.readline() on the live record
Readline ==
    /\ MayInspect
    /\ Delivered("readline", 0, RdReadline(RecReader(record, reader)))
    /\ UNCHANGED <<cfg, status, out, stale, hist, input>>

ParseHttpReturned(h) == Called("parse_http", "", <<>>, h.num_bytes, h)

\* record.parse_http() by the caller
ParseHttp ==
    /\ MayInspect
    /\ ParseHttpReturned(parse_http(record, reader))
    /\ UNCHANGED <<cfg, status, out, stale, hist, got, input>>

VerifyReturned(op, v) == Called(op, v.ret, <<>>, 0, v)

VerifyBlockDigest ==
    /\ MayInspect
    /\ VerifyReturned("verify_block_digest", verify_block_digest(record, reader))
    /\ UNCHANGED <<cfg, status, out, stale, hist, got, input>>

VerifyPayloadDigest ==
    /\ MayInspect
    /\ VerifyReturned("verify_payload_digest", verify_payload_digest(record, reader))
    /\ UNCHANGED <<cfg, status, out, stale, hist, got, input>>

WriteReturned(checksum_data, w) ==
    /\ Called("write", IF checksum_data THEN "checksum" ELSE "plain", w.bytes, 0, w)
    /\ out' = IF input.mode = "copy" THEN out \o w.bytes ELSE out

\* record.write(stream, checksum_data): the copying caller writes to `out`,
\* the inspecting caller to a stream of its own (its content is last.data)
Write(checksum_data) ==
    /\ \/ MayInspect
       \/ Live /\ input.mode = "copy" /\ last.op = "next" /\ ~checksum_data
    /\ WriteReturned(checksum_data, write(record, reader, checksum_data))
    /\ UNCHANGED <<cfg, status, stale, hist, got, input>>

\* CompressingStream (contract): begin_member() starts a compression member
\* and reports the size of the member header it wrote, end_member() ends the
\* member and reports the size of its trailer, write() reports the bytes it
\* was given.  A stream is the sequence of these calls: a marker for
\* begin_member and end_member, the bytes themselves for write
MemberHeadLen == 10
MemberTailLen == 8
BEGIN_MEMBER == "begin_member"
END_MEMBER == "end_member"

\* mutant: the member is not ended
CompressedMember_open(w) ==
    [events |-> <<BEGIN_MEMBER>> \o w.bytes, bytes_written |-> MemberHeadLen + Len(w.bytes)]

\* _write_impl when out_stream is a CompressingStream and the plain writes
\* are w.bytes: what reaches the stream, and the number returned
CompressedMember(w) ==
    [events |-> <<BEGIN_MEMBER>> \o w.bytes \o <<END_MEMBER>>,
     bytes_written |-> MemberHeadLen + Len(w.bytes) + MemberTailLen]

MemberWritten(checksum_data, w, m) ==
    /\ Called("write_member", IF checksum_data THEN "checksum" ELSE "plain",
              m.events, m.bytes_written, w)
    /\ out' = out \o m.events

MemberReturned(checksum_data, w) == MemberWritten(checksum_data, w, CompressedMember(w))

\* record.write(stream, checksum_data) with a block-compressing stream: the
\* caller writes every record it is given, once, to the compressing stream `out`
WriteMember(checksum_data) ==
    /\ Live /\ input.mode = "members" /\ last.op = "next"
    /\ MemberReturned(checksum_data, write(record, reader, checksum_data))
    /\ UNCHANGED <<cfg, status, stale, hist, got, input>>

\* the stale record's reader delivered c
StaleDelivered(n, c) ==
    /\ stale' = IF stale.rkind = "own" THEN [stale EXCEPT !.own = c.r] ELSE stale
    /\ reader' = IF stale.rkind = "own" THEN reader ELSE c.r
    /\ last' = Op("stale_read", "", c.data, n, Snapshot(record, reader), last.k + 1)

\* a read(n) on the reader of the record yielded before the live one
StaleRead(n) ==
    /\ MayInspect
    /\ stale.present
    /\ StaleDelivered(n, RdRead(IF stale.rkind = "own" THEN stale.own ELSE reader, n))
    /\ UNCHANGED <<cfg, record, status, out, hist, got, input>>

\* the caller drops the iteration while __iter__ is suspended at its yield:
\* the generator is closed there and no further statement of it runs
Drop ==
    /\ Live
    /\ status' = "dropped"
    /\ last' = Op("drop", "", <<>>, 0, Snapshot(record, reader), last.k)
    /\ UNCHANGED <<reader, cfg, record, out, stale, hist, got, input>>

ReadSizes == {1, write_chunk_size}

Next ==
    \/ Pull
    \/ Drop
    \/ \E n \in ReadSizes : Read(n)
    \/ Readline
    \/ ParseHttp
    \/ VerifyBlockDigest
    \/ VerifyPayloadDigest
    \/ \E c \in BOOLEAN : Write(c)
    \/ \E c \in BOOLEAN : WriteMember(c)
    \/ \E n \in ReadSizes : StaleRead(n)

Spec == Init /\ [][Next]_vars

(***************************************************************************)
(* A record the caller builds itself: WarcRecord(), then its record_type   *)
(* setter, init_headers and the header map's item access.  Only `record`   *)
(* and `last` change.                                                      *)
(***************************************************************************)
MaxHeaders == 2

\* ArchiveIterator(stream): parse_http = True, record_types = any_type
DefaultCfg == [parse_http |-> TRUE, record_type_filter |-> any_type]

B_WARC_Date == <<"W","A","R","C","-","D","a","t","e">>
B_WARC_Record_ID == <<"W","A","R","C","-","R","e","c","o","r","d","-","I","D">>
B_date == <<"2","0","2","0","-","0","1","-","0","1","T","0","0",":","0","0",":","0","0","Z">>
B_urn == <<"u","r","n",":","u","u","i","d",":","a">>

\* the names and values the caller uses
Keys == {B_Content_Length, B_content_length, B_X_Foo}
Values == {B_bar, B_baz}
Types == {warcinfo, unknown, any_type, no_type}
Lengths == {0, 3}

InitRecord ==
    /\ record = NewRecord
    /\ last = Op("new", "", <<>>, 0, Snapshot(NewRecord, NewReader(<<>>)), 0)
    /\ reader = NewReader(<<>>)
    /\ cfg = DefaultCfg
    /\ input = [mode |-> "record", fam |-> "api", recs |-> <<>>, lead |-> 0]
    /\ stale = Handle(NoRecord)
    /\ status = "init"
    /\ out = <<>>
    /\ hist = <<>>
    /\ got = <<>>

OnRecord == UNCHANGED <<reader, cfg, status, out, stale, hist, got, input>>

\* a call that leaves the record as rec and returns ret / data; n is the
\* integer argument of the call, if it has one
Returned(op, ret, data, n, rec) ==
    /\ record' = rec
    /\ last' = Op(op, ret, data, n, Snapshot(record, reader), 0)

\* what a lookup in asdict() found
Found(op, key, d) ==
    Returned(op, IF d.found THEN "found" ELSE "missing", <<key, d.value>>, 0, record)

\* headers[key]: asdict()[key] ("missing": KeyError)
GetItem(key) == Found("getitem", key, asdict_get(record.headers, key)) /\ OnRecord

\* key in headers
Contains(key) == Found("contains", key, asdict_get(record.headers, key)) /\ OnRecord

\* headers.get(key) ("missing": the default)
Get(key) == Found("get", key, asdict_get(record.headers, key)) /\ OnRecord

\* headers[key] = value
SetItem(key, value) ==
    /\ FirstMatch(record.headers, key) # 0 \/ Len(record.headers.headers) < MaxHeaders
    /\ Returned("setitem", "", <<key, value>>, 0,
                [record EXCEPT !.headers = set_header(@, key, value)])
    /\ OnRecord

\* headers.append(key, value)
AppendItem(key, value) ==
    /\ Len(record.headers.headers) < MaxHeaders
    /\ Returned("append", "", <<key, value>>, 0,
                [record EXCEPT !.headers = append_header(@, key, value)])
    /\ OnRecord

\* the record_type setter
set_record_type(rec, record_type) ==
    [rec EXCEPT !.record_type = record_type,
                !.headers = set_header(@, B_WARC_Type, _enum_record_type_to_str(record_type))]

\* record.record_type = t
SetRecordType(t) ==
    /\ FirstMatch(record.headers, B_WARC_Type) # 0 \/ Len(record.headers.headers) < MaxHeaders
    /\ Returned("set_record_type", "", <<>>, t, set_record_type(record, t))
    /\ OnRecord

\* the type init_headers stores for the argument record_type
InitType(rec, record_type) ==
    IF record_type = no_type
    THEN (IF rec.record_type \in {any_type, no_type} THEN unknown ELSE rec.record_type)
    ELSE IF record_type = any_type THEN unknown ELSE record_type

\* the four headers init_headers appends
RequiredHeaders(hm, record_type, date, record_urn, content_length) ==
    append_header(
        append_header(
            append_header(
                append_header(hm, B_WARC_Type, _enum_record_type_to_str(record_type)),
                B_WARC_Date, date),
            B_WARC_Record_ID, <<"<">> \o record_urn \o <<">">>),
        B_Content_Length, to_string(content_length))

\* mutant: the previous headers are kept
InitHeadersOf_keep(rec, record_type, date, record_urn, content_length) ==
    [rec EXCEPT !.headers = RequiredHeaders(set_status_line(@, B_WARC11),
                                            record_type, date, record_urn, content_length)]

\* init_headers once record_type is resolved and set
InitHeadersOf(rec, record_type, date, record_urn, content_length) ==
    [rec EXCEPT !.headers = RequiredHeaders(set_status_line(clear(@), B_WARC11),
                                            record_type, date, record_urn, content_length)]

\* WarcRecord.init_headers; date is what utcnow() formats to
init_headers(rec, content_length, record_type, record_urn, date) ==
    InitHeadersOf(set_record_type(rec, InitType(rec, record_type)),
                  InitType(rec, record_type), date, record_urn, content_length)

\* record.init_headers(content_length, t, urn); the call is recorded with t
\* and the record's type before it
InitHeaders(content_length, t) ==
    /\ Returned("init_headers", "", <<t, record.record_type>>, content_length,
                init_headers(record, content_length, t, B_urn, B_date))
    /\ OnRecord

NextRecord ==
    \/ \E key \in Keys : GetItem(key)
    \/ \E key \in Keys : Contains(key)
    \/ \E key \in Keys : Get(key)
    \/ \E key \in Keys, value \in Values : SetItem(key, value)
    \/ \E key \in Keys, value \in Values : AppendItem(key, value)
    \/ \E t \in Types : SetRecordType(t)
    \/ \E n \in Lengths, t \in Types : InitHeaders(n, t)

SpecRecord == InitRecord /\ [][NextRecord]_vars

(***************************************************************************)
(* parse_header_block on its own: a reader over a header block made of a   *)
(* few lines, parsed into the record's header map, with and without a      *)
(* status line expected.                                                   *)
(***************************************************************************)
MaxLines == 3

\* name-value lines with nothing, whitespace or text around the colon, a
\* continuation line, a line without a colon, and the two blank lines
BlockLines ==
    {WireLine(B_X_Foo, B_bar),
     B_X_Foo \o <<":">> \o CRLF,
     B_X_Foo \o <<":", " ">> \o CRLF,
     B_X_Foo \o <<":">> \o <<LF>>,
     B_X_Foo \o <<" ", ":", "\t">> \o B_bar \o <<" ">> \o CRLF,
     B_X_Foo \o <<":">> \o B_bar \o <<":">> \o B_baz \o <<LF>>,
     <<" ">> \o B_baz \o CRLF,
     B_bar \o CRLF,
     CRLF,
     <<LF>>}

\* what the stream ends with: nothing more, or a line cut short by EOF
BlockEnds == {<<>>, B_X_Foo \o <<":">>}

RECURSIVE BlockTexts(_)
BlockTexts(n) ==
    IF n = 0 THEN {<<>>}
    ELSE {l \o t : l \in BlockLines, t \in BlockTexts(n - 1)} \cup BlockTexts(n - 1)

InitHeaderBlock ==
    \E t \in BlockTexts(MaxLines), e \in BlockEnds :
        /\ t \o e # <<>>
        /\ reader = NewReader(t \o e)
        /\ record = NewRecord
        /\ last = Op("new", "", <<>>, 0, Snapshot(NewRecord, NewReader(<<>>)), 0)
        /\ cfg = DefaultCfg
        /\ input = [mode |-> "headers", fam |-> "block", recs |-> <<>>, lead |-> 0]
        /\ stale = Handle(NoRecord)
        /\ status = "init"
        /\ out = <<>>
        /\ hist = <<>>
        /\ got = <<>>

\* parse_header_block returned p: the call is recorded with the bytes the
\* reader had left before it and the number it returned
HeaderBlockParsed(has_status_line, p) ==
    /\ record' = [record EXCEPT !.headers = p.target]
    /\ reader' = p.r
    /\ last' = Op("parse_header_block", IF has_status_line THEN "status" ELSE "",
                  SubSeq(reader.buf, reader.pos + 1, Len(reader.buf)),
                  p.bytes_consumed, Snapshot(record, reader), 0)

\* parse_header_block(reader, record.headers, has_status_line)
ParseHeaderBlock(has_status_line) ==
    /\ RdAvail(reader) > 0
    /\ HeaderBlockParsed(has_status_line,
                         parse_header_block(reader, record.headers, has_status_line))
    /\ status' = "parsed"
    /\ UNCHANGED <<cfg, out, stale, hist, got, input>>

NextHeaderBlock == \E has_status_line \in BOOLEAN : ParseHeaderBlock(has_status_line)

SpecHeaderBlock == InitHeaderBlock /\ [][NextHeaderBlock]_vars

(***************************************************************************)
(* Properties                                                              *)
(***************************************************************************)
\* the input record the live record was parsed from
LiveIdx == hist[Len(hist)].idx

IsSuffix(a, b) == Len(a) <= Len(b) /\ SubSeq(b, Len(b) - Len(a) + 1, Len(b)) = a

IsPrefix(a, b) == Len(a) <= Len(b) /\ SubSeq(b, 1, Len(a)) = a

ReadOps == {"read", "readline"}

RECURSIVE Selected(_)
Selected(i) ==
    IF i > Len(input.recs) THEN <<>>
    ELSE (IF BitAnd(input.recs[i].type, cfg.record_type_filter) # 0 THEN <<i>> ELSE <<>>)
         \o Selected(i + 1)

WellFormed == input.fam = "wf"

\* C2: on a stream of well-formed records the records yielded up to Eof are
\* exactly the input records whose type is in record_type_filter, in stream
\* order and with their types, and the reader is then at the end of the
\* stream; a pull that returns SkipNext leaves the reader at the end of the
\* block of a record whose type is not in the filter, and holds no record.
C2_FilterLaw ==
    WellFormed =>
        /\ status = "eof" =>
              /\ [j \in 1..Len(hist) |-> hist[j].idx] = Selected(1)
              /\ \A j \in 1..Len(hist) : hist[j].record_type = input.recs[hist[j].idx].type
              /\ reader.pos = Len(reader.buf)
        /\ status = "skip_next" =>
              /\ ~record.present
              /\ \E i \in 1..Len(input.recs) :
                    /\ reader.pos = input.recs[i].pay_end
                    /\ BitAnd(input.recs[i].type, cfg.record_type_filter) = 0
        /\ Live => BitAnd(record.record_type, cfg.record_type_filter) # 0

\* a warcinfo record was skipped and the response record after it yielded
C2_Witness ==
    /\ WellFormed /\ status = "eof" /\ cfg.record_type_filter = response
    /\ Len(input.recs) = 2 /\ Len(hist) = 1 /\ hist[1].idx = 2

\* the bytes of input record i, from its version line to the end of its block
RecordBytes(i) == SubSeq(reader.buf, input.recs[i].ver_off + 1, input.recs[i].pay_end)

RECURSIVE Copied(_)
Copied(idxs) ==
    IF idxs = <<>> THEN <<>>
    ELSE RecordBytes(idxs[1]) \o CRLF \o Copied(Tail(idxs))

\* C3: the stream_pos of every yielded record is the offset of its version
\* line in the (uncompressed) stream, whatever blank lines precede it.
C3_StreamPosIsVersionLineOffset ==
    \A j \in 1..Len(hist) :
        hist[j].idx # 0 => hist[j].stream_pos = input.recs[hist[j].idx].ver_off

\* C4: a stream of well-formed records iterated with parse_http = false, each
\* yielded record written with write(checksum_data = false): at Eof the output
\* holds the bytes of each yielded record, version line to end of block, each
\* followed by one \r\n; it differs from the input only in the blank lines
\* between records.
C4_RoundTrip ==
    (WellFormed /\ input.mode = "copy" /\ ~cfg.parse_http /\ status = "eof")
        => out = Copied(Selected(1))

C4_Witness ==
    /\ WellFormed /\ input.mode = "copy" /\ ~cfg.parse_http /\ status = "eof"
    /\ cfg.record_type_filter = any_type /\ Len(hist) = 2 /\ input.lead = 1
    /\ Len(out) > 0 /\ \E i \in 1..2 : input.recs[i].http


\* C5: a record written with write(checksum_data = true) and read back
\* through an ArchiveIterator (as constructed by default) passes
\* verify_block_digest(), and verify_payload_digest() too if it is HTTP.
C5_DigestLaw ==
    (last.op = "write" /\ last.ret = "checksum") =>
        LET rr == _read_next_record(NewReader(last.data), DefaultCfg, NoRecord)
            vb == verify_block_digest(rr.record, rr.reader)
            vp == verify_payload_digest(vb.record, vb.reader)
        IN /\ rr.status = "has_next"
           /\ vb.ret = "true"
           /\ rr.record.is_http => vp.ret = "true"

\* C6: for a record just yielded, the value stored under "Content-Length" in
\* its WARC headers parses to a non-negative integer equal to the content
\* length the reader limit was set to.
C6_ContentLengthHeader ==
    (Live /\ last.op = "next") =>
        LET v == asdict_get(record.headers, B_Content_Length)
            n == stoi(v.value)
        IN v.found /\ n.ok /\ n.val >= 0 /\ n.val = last.pre.cl

\* a call of parse_http that parsed: the iterator's own, or the caller's
\* first on a record not yet parsed
ParsedNow ==
    \/ Live /\ last.op = "next" /\ record.http_parsed
    \/ Live /\ last.op = "parse_http" /\ ~last.pre.http_parsed

Trim(s) ==
    LET nonsp == {i \in 1..Len(s) : ~isspace(s[i])}
    IN IF nonsp = {} THEN <<>>
       ELSE SubSeq(s, CHOOSE i \in nonsp : \A j \in nonsp : i <= j,
                      CHOOSE i \in nonsp : \A j \in nonsp : i >= j)

\* the place of the first ':' of s, 0 if it has none
ColonAt(s) ==
    LET at == {i \in 1..Len(s) : s[i] = COLON}
    IN IF at = {} THEN 0 ELSE CHOOSE i \in at : \A j \in at : i <= j

\* the headers a block of name-value and continuation lines stands for
RECURSIVE Folded(_, _, _)
Folded(lines, i, acc) ==
    IF i > Len(lines) THEN acc
    ELSE LET line == lines[i]
             c == ColonAt(line)
         IN IF isspace(line[1])
            THEN Folded(lines, i + 1,
                        IF acc = <<>> THEN <<(<<(<<>>), Trim(line)>>)>>
                        ELSE [acc EXCEPT ![Len(acc)] =
                                  <<@[1], @[2] \o <<" ">> \o Trim(line)>>])
            ELSE Folded(lines, i + 1,
                        Append(acc, <<Trim(SubSeq(line, 1, c - 1)),
                                      Trim(SubSeq(line, c + 1, Len(line)))>>))

\* C8: in the headers of a yielded record every line that begins with a
\* whitespace byte is folded into the header before it, whose value becomes
\* <previous value> + " " + <trimmed line>, and adds no header; only while the
\* map is empty does it make a pair with an empty name.
C8_ContinuationFolding ==
    (Live /\ last.op = "next" /\ input.fam = "fold") =>
        record.headers.headers = Folded(input.recs[LiveIdx].lines, 1, <<>>)

VerifyOps == {"verify_block_digest", "verify_payload_digest"}

\* the digest header the last verification looked up
C9_Header ==
    get_header(last.pre.headers,
               IF last.op = "verify_block_digest" THEN B_WARC_Block_Digest
               ELSE B_WARC_Payload_Digest)

\* the conditions under which verification returns before it reads
C9_Early ==
    \/ last.op = "verify_payload_digest" /\ ~last.pre.http_parsed
    \/ ColonAt(C9_Header) = 0
    \/ SubSeq(C9_Header, 1, ColonAt(C9_Header) - 1) \notin {B_sha1, B_md5, B_sha256}

\* C9: a verification that streamed the payload through the hash leaves
\* record.reader bound to an in-memory buffer at position 0 that delivers
\* exactly the bytes unread before the call, then EOF; one that returned early
\* (no ':' in the digest header, unsupported algorithm, HTTP not parsed for the
\* payload digest) did not return true and left the reader as it was, neither
\* consumed nor rebound.
C9_Tee ==
    (Live /\ last.op \in VerifyOps) =>
        IF C9_Early \/ last.ret = "error"
        THEN /\ last.ret # "true"
             /\ record.rkind = last.pre.rkind
             /\ Unread(record, reader) = last.pre.unread
        ELSE /\ record.rkind = "own"
             /\ record.own.pos = 0
             /\ record.own.limit = -1
             /\ record.own.buf = last.pre.unread
             /\ LET c == RdRead(record.own, Len(last.pre.unread) + 1)
                IN c.data = last.pre.unread /\ RdRead(c.r, 1).data = <<>>

\* a verification of a streamed record with its whole block unread
C9_Witness ==
    /\ Live /\ last.op = "verify_block_digest" /\ last.ret = "true"
    /\ last.pre.rkind = "iter" /\ last.pre.unread = B_a_b
    /\ record.rkind = "own"

\* C10: a read from the reader of a record the iterator has been advanced
\* past delivers no byte.
C10_StaleReadsNothing ==
    last.op = "stale_read" => last.data = <<>>

\* C11: on a stream whose first record is malformed (no Content-Length, a
\* Content-Length that is no number, a version line other than WARC/1.0 and
\* WARC/1.1, or a header block cut off by the end of the stream) the
\* iterator yields no record and raises no error: its first call returns Eof.
C11_MalformedEndsIteration ==
    input.fam \in {"mal", "trunc"} => hist = <<>> /\ status \in {"init", "eof"}

\* the header lines of pairs hs, each as name ": " value \r\n (a pair with
\* an empty name: its value alone), in order
RECURSIVE HeaderLines(_)
HeaderLines(hs) ==
    IF hs = <<>> THEN <<>>
    ELSE (IF hs[1][1] = <<>> THEN <<>> ELSE hs[1][1] \o <<":", " ">>)
         \o hs[1][2] \o CRLF \o HeaderLines(Tail(hs))

\* status line, headers in insertion order, blank line
EmittedHead(hm) == hm.status_line \o CRLF \o HeaderLines(hm.headers) \o CRLF

\* C12: what write() emitted is the status line, the record's headers in
\* insertion order, a blank line, a block of exactly as many bytes as the
\* Content-Length header emitted with it says, and \r\n.
C12_WrittenLayout ==
    (Live /\ last.op = "write") =>
        LET head == EmittedHead(record.headers)
            cl == stoi(get_header(record.headers, B_Content_Length))
        IN /\ IsPrefix(head, last.data)
           /\ IsSuffix(CRLF, last.data)
           /\ cl.ok
           /\ Len(last.data) = Len(head) + cl.val + Len(CRLF)

LookupOps == {"getitem", "contains", "get"}

\* the values stored under a name equal to key up to case
ValuesOf(hm, key) ==
    {hm.headers[i][2] : i \in {j \in 1..Len(hm.headers) :
                                   str_to_lower(hm.headers[j][1]) = str_to_lower(key)}}

\* C13: on a record's header map, headers[key], key in headers and
\* headers.get(key) find a stored header under any case variant of its name
\* and return its value; headers[key] = value with any case variant replaces
\* the value of the first matching pair in place, leaving the number and
\* order of the pairs and the stored name unchanged; append always adds a new
\* pair at the end.
C13_CaseInsensitiveHeaders ==
    /\ (last.op \in LookupOps /\ ValuesOf(record.headers, last.data[1]) # {}) =>
           /\ last.ret = "found"
           /\ last.data[2] \in ValuesOf(record.headers, last.data[1])
    /\ (last.op = "setitem" /\ FirstMatch(last.pre.headers, last.data[1]) # 0) =>
           record.headers.headers =
               [last.pre.headers.headers
                    EXCEPT ![FirstMatch(last.pre.headers, last.data[1])] = <<@[1], last.data[2]>>]
    /\ last.op = "append" =>
           record.headers.headers = Append(last.pre.headers.headers, last.data)

RECURSIVE Names(_)
Names(hs) == IF hs = <<>> THEN <<>> ELSE <<hs[1][1]>> \o Names(Tail(hs))

C14_ReaderClosedOnExit ==
    status \in {"eof", "error", "dropped"} => reader.closed

\* the lines of text t, each with its terminator; the last may have none
RECURSIVE SplitLines(_)
SplitLines(t) ==
    IF t = <<>> THEN <<>>
    ELSE LET lf == {i \in 1..Len(t) : t[i] = LF}
             k == IF lf = {} THEN Len(t) ELSE CHOOSE i \in lf : \A j \in lf : i <= j
         IN <<SubSeq(t, 1, k)>> \o SplitLines(SubSeq(t, k + 1, Len(t)))

\* the place of the first line that is \r\n or \n; past the last line when
\* there is none and the block ends with the empty line read at EOF
EndAt(ls) ==
    LET at == {i \in 1..Len(ls) : ls[i] \in {CRLF, <<LF>>}}
    IN IF at = {} THEN Len(ls) + 1 ELSE CHOOSE i \in at : \A j \in at : i <= j

RECURSIVE TotalLen(_)
TotalLen(ls) == IF ls = <<>> THEN 0 ELSE Len(ls[1]) + TotalLen(Tail(ls))

\* the header map after the lines ls were dispatched one by one
RECURSIVE Dispatched(_, _, _)
Dispatched(target, ls, has_status_line) ==
    IF ls = <<>> THEN target
    ELSE LET h == HeaderLine(target, ls[1], has_status_line)
         IN Dispatched(h.target, Tail(ls), h.hsl)

\* C16: parse_header_block stops at the first line that is \r\n, \n or
\* empty: it returns the number of bytes of all lines up to and including
\* that one, leaves the reader right behind it, and the header map holds what
\* the lines before it added and nothing for the terminating line.
C16_HeaderBlockEnd ==
    last.op = "parse_header_block" =>
        LET ls == SplitLines(last.data)
            e == EndAt(ls)
        IN /\ last.n = TotalLen(SubSeq(ls, 1, Min(e, Len(ls))))
           /\ reader.pos = Len(reader.buf) - Len(last.data) + last.n
           /\ record.headers
                  = Dispatched(last.pre.headers, SubSeq(ls, 1, e - 1), last.ret = "status")

\* C20: of the lines before the terminating one, every line that is
\* dispatched as a header line and contains a colon appends a pair whose name
\* is the text before its first colon and whose value is the text after it,
\* both without leading and trailing whitespace, so the value is empty when
\* nothing or only whitespace follows the colon (the value is compared where
\* no continuation line follows).
C20_NameValueSplit ==
    last.op = "parse_header_block" =>
        LET ls == SplitLines(last.data)
            e == EndAt(ls)
            nonsp == {i \in 1..(e - 1) : ~isspace(ls[i][1])}
            st == IF last.ret = "status" /\ nonsp # {}
                  THEN CHOOSE i \in nonsp : \A j \in nonsp : i <= j ELSE 0
            colon == {i \in nonsp : i # st /\ ColonAt(ls[i]) # 0}
            cont == {i \in 1..(e - 1) : i # st /\ i \notin colon}
            synth == IF last.pre.headers.headers = <<>>
                        /\ \E i \in cont : \A j \in colon : i < j
                     THEN 1 ELSE 0
            hs == record.headers.headers
        IN \A i \in colon :
               LET at == Len(last.pre.headers.headers) + synth
                             + Cardinality({j \in colon : j <= i})
                   c == ColonAt(ls[i])
               IN /\ at <= Len(hs)
                  /\ hs[at][1] = Trim(SubSeq(ls[i], 1, c - 1))
                  /\ (i + 1 \notin cont /\ (i + 1 <= Len(ls) => ls[i + 1] # <<LF>>)) =>
                         hs[at][2] = Trim(SubSeq(ls[i], c + 1, Len(ls[i])))

\* C18: for a record just yielded, the fields the header scan resolves agree
\* with the whole header block, names compared without regard to case:
\* content_length is the number in a Content-Length header if there is one,
\* record_type the type named by a WARC-Type header if there is one, and
\* is_http holds exactly if some Content-Type value starts with
\* application/http; headers that occur more than once do not keep a later
\* header from being read.
C18_ScanResolvesAllFields ==
    (Live /\ last.op = "next") =>
        /\ ValuesOf(record.headers, B_Content_Length) # {} =>
               \E v \in ValuesOf(record.headers, B_Content_Length) :
                   stoi(v).ok /\ stoi(v).val = last.pre.cl
        /\ ValuesOf(record.headers, B_WARC_Type) # {} =>
               \E v \in ValuesOf(record.headers, B_WARC_Type) :
                   record.record_type = _str_record_type_to_enum(v)
        /\ record.is_http <=>
               \E v \in ValuesOf(record.headers, B_Content_Type) :
                   StartsWith(v, B_application_http)

\* the pull that yields the k-th record, or ends the iteration before it,
\* when the caller reads nothing from the records it is given
RECURSIVE ReadFree(_, _, _, _)
ReadFree(rd, c, prev, k) ==
    LET n == _read_next_record(rd, c, prev)
    IN IF n.status = "skip_next" THEN ReadFree(n.reader, c, n.record, k)
       ELSE IF n.status = "has_next" /\ k > 1 THEN ReadFree(n.reader, c, n.record, k - 1)
       ELSE n

\* C17: whatever the caller did with the records yielded before (read none,
\* some or all of their bytes), a pull returns what the same pull returns in
\* an iteration of the same stream with the same configuration in which
\* nothing is ever read: the same status, the same record (type, headers,
\* content length, stream_pos), with the reader at the same place.
C17_PartialReadsSafe ==
    (last.op = "next" /\ status # "skip_next") =>
        LET y == ReadFree(NewReader(reader.buf), cfg, NoRecord,
                          Len(hist) + (IF status = "has_next" THEN 0 ELSE 1))
        IN /\ y.status = status
           /\ y.record = record
           /\ y.reader.pos = reader.pos
           /\ y.reader.limit = reader.limit

\* the second record was yielded after the caller had read one byte of the
\* three-byte block of the first
C17_Witness ==
    /\ last.op = "next" /\ status = "has_next" /\ Len(hist) = 2
    /\ WellFormed /\ hist[1].idx = 1 /\ hist[2].idx = 2
    /\ Len(last.data) = 1 /\ Len(input.recs[1].block) = 3

\* the number of members open after the first i calls on the stream evs
Depth(evs, i) ==
    Cardinality({j \in 1..i : evs[j] = BEGIN_MEMBER})
        - Cardinality({j \in 1..i : evs[j] = END_MEMBER})

\* members never nest, none is ended that was not begun, none is left open
Nested(evs) ==
    /\ \A i \in 1..Len(evs) : evs[i] \in {BEGIN_MEMBER, END_MEMBER} => Depth(evs, i) \in {0, 1}
    /\ Depth(evs, Len(evs)) = 0

\* C19: a write() to a block-compressing stream calls begin_member() once,
\* before the first byte, and end_member() once, after the bytes of the
\* record, which end with \r\n; the number it returns is what begin_member
\* reported plus the bytes written plus what end_member reported; over all
\* writes to the stream members never nest and none is left open.
C19_OneMemberPerRecord ==
    /\ Nested(out)
    /\ last.op = "write_member" =>
           LET n == Len(last.data)
               bytes == SubSeq(last.data, 2, n - 1)
           IN /\ n >= 4
              /\ last.data[1] = BEGIN_MEMBER /\ last.data[n] = END_MEMBER
              /\ \A i \in 1..Len(bytes) : bytes[i] \notin {BEGIN_MEMBER, END_MEMBER}
              /\ IsSuffix(CRLF, bytes)
              /\ IsPrefix(record.headers.status_line \o CRLF, bytes)
              /\ last.n = MemberHeadLen + Len(bytes) + MemberTailLen
              /\ IsSuffix(last.data, out)

\* two records, each written to the compressing stream: two members
C19_Witness ==
    /\ last.op = "write_member" /\ Len(hist) = 2
    /\ Cardinality({i \in 1..Len(out) : out[i] = BEGIN_MEMBER}) = 2
    /\ Cardinality({i \in 1..Len(out) : out[i] = END_MEMBER}) = 2

\* C21: the stream_pos values of the records yielded so far are strictly
\* increasing in the order the records were yielded.
C21_StreamPosIncreasing ==
    \A j \in 1..Len(hist) : \A k \in 1..Len(hist) :
        j < k => hist[j].stream_pos < hist[k].stream_pos

\* http_headers is present exactly when http_parsed is true, and a record
\* just yielded is parsed exactly when the iterator was configured with
\* parse_http and the record is_http
HttpHeadersPresence ==
    /\ record.present => (record.has_http_headers <=> record.http_parsed)
    /\ (Live /\ last.op = "next") =>
           (record.http_parsed <=> (cfg.parse_http /\ record.is_http))

\* a call of parse_http() on a record that is already parsed changes neither
\* the record (http_headers, content_length, http_parsed and all else) nor
\* the reader
SecondParseHttp ==
    (last'.op = "parse_http" /\ record.http_parsed) =>
        (record' = record /\ reader' = reader /\ last'.n = 0)

\* C22: parse_http() is idempotent: a second or later call on a record leaves
\* http_headers, content_length, http_parsed and the reader position as the
\* first call left them; http_headers is present exactly when http_parsed is
\* true, which for a record just yielded is exactly when the iterator parses
\* HTTP and the record is_http.
C22_ParseHttpIdempotent == []HttpHeadersPresence /\ [][SecondParseHttp]_vars

\* the caller called parse_http() twice on an HTTP record the iterator had
\* not parsed
C22_Witness ==
    /\ Live /\ ~cfg.parse_http /\ record.is_http
    /\ last.op = "parse_http" /\ last.k = 2 /\ last.pre.http_parsed
    /\ record.has_http_headers /\ Unread(record, reader) = B_hi
====
